---- MODULE Spec2Model ----
(***************************************************************************)
(* A model of the DIContainer class of src/mod.ts: a tree of containers,   *)
(* each with an insertion-ordered local table of registrations (instance,  *)
(* factory, singleton), synchronous and asynchronous resolution through    *)
(* the parent chain, and disposal.                                         *)
(*                                                                         *)
(* Execution is single-threaded and cooperative: every method body runs    *)
(* atomically up to its next `await`.  A suspended resolveAsync or dispose *)
(* call is a record in `pending` / `disposing`; its continuation is an     *)
(* action of its own, so any other call may run in between.                *)
(*                                                                         *)
(* Producers and disposal capabilities are caller-supplied functions: what *)
(* a producer returns at one invocation (a plain value, undefined, a       *)
(* promise, or a thrown error) is an input of the step that invokes it.    *)
(* They are taken not to call back into the container, and a disposal      *)
(* capability is taken to complete without an error.  Every object a       *)
(* producer makes, and every registered instance, has a dispose method.    *)
(* console.warn only logs: the warning of resolve/resolveAsync is a field  *)
(* of the call's outcome, the dependsOn warning is left out.               *)
(***************************************************************************)
EXTENDS Integers, Sequences, FiniteSets

(* ------------------------------- bounds -------------------------------- *)

\* The objects a run may create: containers (the root included), plus
\* registration objects, plus producer invocations that yield an object or
\* a promise.
MaxSize == 5

Names == {"a", "b"}

VARIABLES
  parent,      \* parent[c]: the parent of container c, NoParent for a root
  services,    \* services[c]: the Map of c, a sequence of [name, reg] entries
  disposed,    \* disposed[c]: the private disposed flag of c
  regs,        \* the ServiceRegistration objects, in order of creation
  pending,     \* resolveAsync calls suspended at their await
  disposing,   \* dispose calls suspended at their await
  ncalls,      \* producer invocations so far that yielded an object or a promise
  hist,        \* per registration: history needed to state the properties
  dlog,        \* dlog[c]: the registrations whose value dispose() of c has
               \* disposed, in order
  snap         \* snap[c]: the registrations of c that held a disposable value
               \* when dispose() of c began, each with its type

vars == <<parent, services, disposed, regs, pending, disposing, ncalls,
          hist, dlog, snap>>

(* ------------------------------- values -------------------------------- *)

\* this.parent === null; a lookup that finds no registration.
NoParent == 0
NoReg == 0

\* JavaScript values, as far as the container can tell them apart.
Undefined == [kind |-> "undefined", id |-> 0, disp |-> FALSE]
Fn == [kind |-> "function", id |-> 0, disp |-> FALSE]
Thrown == [kind |-> "error", id |-> 0, disp |-> FALSE]
NotYet == [kind |-> "none", id |-> 0, disp |-> FALSE]
Overlapped == [kind |-> "overlapped", id |-> 0, disp |-> FALSE]
\* The k-th object a producer made, and the object passed to register() to
\* create registration r; each has a dispose method.
Obj(k) == [kind |-> "object", id |-> k, disp |-> TRUE]
Inst(r) == [kind |-> "instance", id |-> r, disp |-> TRUE]

\* What one invocation of a producer can do: return a value or throw
\* (mode "sync"), or return a promise that settles later (mode "async").
ProducerOutcomes ==
  [mode : {"sync", "async"}, res : {"object", "undefined", "throw"}]

Produced(o, k) ==
  CASE o.res = "object" -> Obj(k)
    [] o.res = "undefined" -> Undefined
    [] OTHER -> Thrown

Containers == 1..Len(parent)
RegIds == 1..Len(regs)

Size == Len(parent) + Len(regs) + ncalls

(* ------------------------------ the table ------------------------------ *)

HasKey(tbl, n) == \E i \in 1..Len(tbl) : tbl[i].name = n

\* Map.prototype.get: the registration stored under n, NoReg when absent.
MapGet(tbl, n) ==
  IF HasKey(tbl, n)
  THEN tbl[CHOOSE i \in 1..Len(tbl) : tbl[i].name = n].reg
  ELSE NoReg

\* Map.prototype.set: a key already present keeps its place in the
\* insertion order and gets the new value; a new key goes last.
MapSet(tbl, n, r) ==
  IF HasKey(tbl, n)
  THEN [i \in 1..Len(tbl) |->
          IF tbl[i].name = n THEN [name |-> n, reg |-> r] ELSE tbl[i]]
  ELSE Append(tbl, [name |-> n, reg |-> r])

Keys(tbl) == [i \in 1..Len(tbl) |-> tbl[i].name]
Values(tbl) == [i \in 1..Len(tbl) |-> tbl[i].reg]

(* ------------------------------ internals ------------------------------ *)

\* (mutant of assertAlive: it never throws)
assertNothing(c) == TRUE

\* assertAlive passes (does not throw) exactly on a container not disposed.
assertAlive(c) == ~disposed[c]

\* (mutant of getRegistrationDeep: the parent chain is searched first)
RECURSIVE getRegistrationParentFirst(_, _)
getRegistrationParentFirst(c, n) ==
  IF parent[c] # NoParent /\ getRegistrationParentFirst(parent[c], n) # NoReg
  THEN getRegistrationParentFirst(parent[c], n)
  ELSE MapGet(services[c], n)

\* (mutant of getRegistrationDeep: a disposed container finds nothing)
RECURSIVE getRegistrationDeadEnd(_, _)
getRegistrationDeadEnd(c, n) ==
  IF disposed[c] THEN NoReg
  ELSE IF MapGet(services[c], n) # NoReg THEN MapGet(services[c], n)
  ELSE IF parent[c] = NoParent THEN NoReg
  ELSE getRegistrationDeadEnd(parent[c], n)

RECURSIVE getRegistrationDeep(_, _)
getRegistrationDeep(c, n) ==
  IF MapGet(services[c], n) # NoReg THEN MapGet(services[c], n)
  ELSE IF parent[c] = NoParent THEN NoReg
  ELSE getRegistrationDeep(parent[c], n)

\* (mutant of has: only the local table is consulted)
hasLocal(c, n) == HasKey(services[c], n)

RECURSIVE has(_, _)
has(c, n) ==
  \/ HasKey(services[c], n)
  \/ IF parent[c] = NoParent THEN FALSE ELSE has(parent[c], n)

\* (mutant of list: the parent's names are not filtered)
RECURSIVE listUnfiltered(_)
listUnfiltered(c) ==
  IF parent[c] = NoParent THEN Keys(services[c])
  ELSE Keys(services[c]) \o listUnfiltered(parent[c])

\* The filter callback of list(): (k) => !this.services.has(String(k))
NotLocal(c, q) ==
  LET keep == {i \in 1..Len(q) : ~HasKey(services[c], q[i])}
      \* the i-th kept index, in increasing order
      nth[i \in 1..Len(q)] ==
        CHOOSE j \in keep : Cardinality({m \in keep : m < j}) = i - 1
  IN [i \in 1..Cardinality(keep) |-> q[nth[i]]]

RECURSIVE list(_)
list(c) ==
  IF parent[c] = NoParent THEN Keys(services[c])
  ELSE Keys(services[c]) \o NotLocal(c, list(parent[c]))

\* (mutant of IsFactory: a factory is handled as a singleton)
IsFactoryNever(r) == FALSE

\* reg.type === "instance", reg.type === "factory"
IsInstance(r) == regs[r].type = "instance"
IsFactory(r) == regs[r].type = "factory"

\* reg.singleton !== undefined
Cached(r) == regs[r].singleton # Undefined

\* (mutant of Store: the write goes to the newest registration object)
StoreInNewest(r, v) == [regs EXCEPT ![Len(regs)].singleton = v]

\* (mutant of Store: the first write wins)
StoreUnlessCached(r, v) ==
  IF regs[r].singleton # Undefined THEN regs
  ELSE [regs EXCEPT ![r].singleton = v]

\* reg.singleton = result
Store(r, v) == [regs EXCEPT ![r].singleton = v]

\* (mutant of WarnsOnProduce: the warning is missing)
WarnsNever(c) == FALSE

\* if (this.parent) console.warn(...)
WarnsOnProduce(c) == parent[c] # NoParent

\* The container the producer is called with: reg.value(this).
ProducerArg(c, r) == c

(* ------------------------------- history ------------------------------- *)

\* hist[r] for a singleton r: owner, the container it was registered on;
\* first, the value its first successful resolution returned (NotYet before
\* that), and from, the container that resolution was requested on; first
\* is Overlapped from the moment two resolutions of r overlap.
NewHist(c) == [owner |-> c, first |-> NotYet, from |-> NoParent]

\* A resolution of singleton r begins: it overlaps every resolveAsync of r
\* that is still suspended.
Begun(h, r) ==
  IF \E t \in pending : t.reg = r
  THEN [h EXCEPT ![r].first = Overlapped, ![r].from = NoParent]
  ELSE h

\* A resolution of singleton r requested on c returns v.
Returned(h, r, c, v) ==
  IF h[r].first = NotYet
  THEN [h EXCEPT ![r].first = v, ![r].from = c]
  ELSE h

(* --------------------------- unreachable objects ------------------------ *)

\* A registration object is reachable through a table entry or through the
\* local variable `reg` of a suspended resolveAsync call.  One that is no
\* longer reachable can never be read again: its record is blanked, so that
\* states differing only in unreachable objects are one state.
Reachable(svcs, tasks) ==
  UNION {{svcs[c][i].reg : i \in 1..Len(svcs[c])} : c \in 1..Len(svcs)}
    \cup {t.reg : t \in tasks}

Gone == [type |-> "gone", value |-> Undefined, singleton |-> Undefined]

Sweep(rs, svcs, tasks) ==
  [r \in 1..Len(rs) |-> IF r \in Reachable(svcs, tasks) THEN rs[r] ELSE Gone]

SweepHist(h, svcs, tasks) ==
  [r \in 1..Len(h) |->
     IF r \in Reachable(svcs, tasks) THEN h[r] ELSE NewHist(NoParent)]

(* ------------------------------- initial ------------------------------- *)

\* createContainer(): one root container, empty and alive.
Init ==
  /\ parent = <<NoParent>>
  /\ services = << <<>> >>
  /\ disposed = <<FALSE>>
  /\ regs = <<>>
  /\ pending = {}
  /\ disposing = {}
  /\ ncalls = 0
  /\ hist = <<>>
  /\ dlog = << <<>> >>
  /\ snap = << <<>> >>

(* ------------------------------- scoping ------------------------------- *)

\* createChild(): new DIContainer(this).
createChild(c) ==
  /\ c \in Containers
  /\ Size < MaxSize
  /\ parent' = Append(parent, c)
  /\ services' = Append(services, <<>>)
  /\ disposed' = Append(disposed, FALSE)
  /\ dlog' = Append(dlog, <<>>)
  /\ snap' = Append(snap, <<>>)
  /\ UNCHANGED <<regs, pending, disposing, ncalls, hist>>

(* ----------------------------- registration ---------------------------- *)

\* What a registration call does to the state, and the error it raises:
\* this.assertAlive(); this.services.set(name, {type, value}).
SetRegistration(c, n, type, value) ==
  IF ~assertAlive(c)
  THEN [err |-> "Disposed", services |-> services, regs |-> regs,
        hist |-> hist]
  ELSE [err |-> "none",
        services |-> [services EXCEPT ![c] = MapSet(@, n, Len(regs) + 1)],
        regs |-> Append(regs, [type |-> type, value |-> value,
                               singleton |-> Undefined]),
        hist |-> Append(hist, NewHist(c))]

Registered(out) ==
  /\ out.err = "none" => Size < MaxSize
  /\ services' = out.services
  /\ regs' = Sweep(out.regs, out.services, pending)
  /\ hist' = SweepHist(out.hist, out.services, pending)
  /\ UNCHANGED <<parent, disposed, pending, disposing, ncalls, dlog, snap>>

\* register(name, instance); the instance is a fresh object.
register(c, n) ==
  /\ c \in Containers
  /\ Registered(SetRegistration(c, n, "instance", Inst(Len(regs) + 1)))

registerFactory(c, n) ==
  /\ c \in Containers
  /\ Registered(SetRegistration(c, n, "factory", Fn))

\* The dependsOn warning only logs and is left out.
registerSingleton(c, n) ==
  /\ c \in Containers
  /\ Registered(SetRegistration(c, n, "singleton", Fn))

(* ------------------------------ resolution ----------------------------- *)

\* The outcome of a resolve/resolveAsync call (or of its continuation):
\* reg: the registration looked up; ret: the value returned (NotYet when it
\* raised, or is suspended); err: the error raised; inv: the registration
\* whose producer was invoked; arg: the container passed to the producer;
\* warn: whether console.warn was called; tasks, regs, hist: the state after.
Outcome(reg, ret, err, inv, arg, warn, tasks, newregs, newhist) ==
  [reg |-> reg, ret |-> ret, err |-> err, inv |-> inv, arg |-> arg,
   warn |-> warn, tasks |-> tasks, regs |-> newregs, hist |-> newhist]

Quiet(reg, ret, err, newhist) ==
  Outcome(reg, ret, err, NoReg, NoParent, FALSE, pending, regs, newhist)

\* (mutant of SyncError: a promise is returned like a plain value)
SyncErrorPromiseAccepted(o) ==
  IF o.res = "throw" /\ o.mode = "sync" THEN "Producer" ELSE "none"

\* The error resolve() raises for a producer outcome, "none" for a value.
SyncError(o) ==
  IF o.mode = "async" THEN "AsyncMisuse"
  ELSE IF o.res = "throw" THEN "Producer"
  ELSE "none"

\* resolve(name), the producer (if it is invoked) behaving as o and its
\* invocation being the k-th.
resolveCall(c, n, o, k) ==
  LET r == getRegistrationDeep(c, n) IN
  IF r = NoReg THEN Quiet(NoReg, NotYet, "NotFound", hist)
  ELSE IF IsInstance(r)
  THEN Quiet(r, regs[r].value, "none", hist)
  ELSE IF IsFactory(r)
  THEN Outcome(r, IF SyncError(o) = "none" THEN Produced(o, k) ELSE NotYet,
               SyncError(o), r, ProducerArg(c, r), FALSE, pending, regs, hist)
  ELSE IF Cached(r)
  THEN Quiet(r, regs[r].singleton, "none",
             Returned(Begun(hist, r), r, c, regs[r].singleton))
  ELSE IF SyncError(o) = "none"
  THEN Outcome(r, Produced(o, k), "none", r, ProducerArg(c, r),
               WarnsOnProduce(c), pending, Store(r, Produced(o, k)),
               Returned(Begun(hist, r), r, c, Produced(o, k)))
  ELSE Outcome(r, NotYet, SyncError(o), r, ProducerArg(c, r),
               WarnsOnProduce(c), pending, regs, Begun(hist, r))

\* Whether the call made the k-th invocation that yields an object or a
\* promise: its result or its suspended task then carries the number k.
Numbered(out, k) ==
  \/ out.ret.kind = "object" /\ out.ret.id = k
  \/ \E t \in out.tasks : t.id = k

\* Whether resolving n on c invokes a producer: the name is a factory's, or
\* a singleton's whose cache is empty.
Invokes(c, n) ==
  LET r == getRegistrationDeep(c, n) IN
  /\ r # NoReg
  /\ ~IsInstance(r)
  /\ IsFactory(r) \/ ~Cached(r)

\* The producer outcomes a call on (c, n) can meet.
Met(c, n) ==
  IF Invokes(c, n) THEN ProducerOutcomes
  ELSE {[mode |-> "sync", res |-> "undefined"]}

\* The state after a call with outcome `out`.
Resolved(out) ==
  /\ Numbered(out, ncalls + 1) => Size < MaxSize
  /\ ncalls' = IF Numbered(out, ncalls + 1) THEN ncalls + 1 ELSE ncalls
  /\ regs' = out.regs
  /\ hist' = out.hist
  /\ pending' = out.tasks
  /\ UNCHANGED <<parent, services, disposed, disposing, dlog, snap>>

resolve(c, n) ==
  /\ c \in Containers
  /\ \E o \in Met(c, n) : Resolved(resolveCall(c, n, o, ncalls + 1))

\* A resolveAsync call suspended at its await: the k-th producer invocation
\* was made on behalf of container c for registration r, and the awaited
\* promise settles with v (Thrown: it is rejected).
Task(k, c, r, v) == [id |-> k, c |-> c, reg |-> r, res |-> v]

\* A producer that throws before returning makes resolveAsync reject at
\* once; any other outcome is awaited.
ThrowsAtOnce(o) == o.mode = "sync" /\ o.res = "throw"

\* resolveAsync(name) up to its first await (or to its return).
resolveAsyncCall(c, n, o, k) ==
  LET r == getRegistrationDeep(c, n) IN
  IF r = NoReg THEN Quiet(NoReg, NotYet, "NotFound", hist)
  ELSE IF IsInstance(r)
  THEN Quiet(r, regs[r].value, "none", hist)
  ELSE IF IsFactory(r)
  THEN Outcome(r, NotYet, IF ThrowsAtOnce(o) THEN "Producer" ELSE "none",
               r, ProducerArg(c, r), FALSE,
               IF ThrowsAtOnce(o) THEN pending
               ELSE pending \cup {Task(k, c, r, Produced(o, k))},
               regs, hist)
  ELSE IF Cached(r)
  THEN Quiet(r, regs[r].singleton, "none",
             Returned(Begun(hist, r), r, c, regs[r].singleton))
  ELSE Outcome(r, NotYet, IF ThrowsAtOnce(o) THEN "Producer" ELSE "none",
               r, ProducerArg(c, r), WarnsOnProduce(c),
               IF ThrowsAtOnce(o) THEN pending
               ELSE pending \cup {Task(k, c, r, Produced(o, k))},
               regs, Begun(hist, r))

resolveAsync(c, n) ==
  /\ c \in Containers
  /\ \E o \in Met(c, n) : Resolved(resolveAsyncCall(c, n, o, ncalls + 1))

\* (mutant of resolveAsyncResume: a rejection is written to the cache)
resolveAsyncResumeStoresFailure(t) ==
  IF IsFactory(t.reg)
  THEN Outcome(t.reg, IF t.res = Thrown THEN NotYet ELSE t.res,
               IF t.res = Thrown THEN "Producer" ELSE "none",
               NoReg, NoParent, FALSE, pending \ {t}, regs, hist)
  ELSE Outcome(t.reg, IF t.res = Thrown THEN NotYet ELSE t.res,
               IF t.res = Thrown THEN "Producer" ELSE "none",
               NoReg, NoParent, FALSE, pending \ {t}, Store(t.reg, t.res),
               IF t.res = Thrown THEN hist
               ELSE Returned(hist, t.reg, t.c, t.res))

\* The rest of resolveAsync, after the await: a rejection is rethrown; for
\* a singleton the result is written to the registration looked up before
\* the await; the result is returned.
resolveAsyncResume(t) ==
  IF t.res = Thrown
  THEN Outcome(t.reg, NotYet, "Producer", NoReg, NoParent, FALSE,
               pending \ {t}, regs, hist)
  ELSE IF IsFactory(t.reg)
  THEN Outcome(t.reg, t.res, "none", NoReg, NoParent, FALSE,
               pending \ {t}, regs, hist)
  ELSE Outcome(t.reg, t.res, "none", NoReg, NoParent, FALSE,
               pending \ {t}, Store(t.reg, t.res),
               Returned(hist, t.reg, t.c, t.res))

resumeResolveAsync(t) ==
  /\ t \in pending
  /\ LET out == resolveAsyncResume(t) IN
     /\ regs' = Sweep(out.regs, services, out.tasks)
     /\ hist' = SweepHist(out.hist, services, out.tasks)
     /\ pending' = out.tasks
  /\ UNCHANGED <<parent, services, disposed, disposing, dlog, snap, ncalls>>

(* --------------------------- cleanup, disposal -------------------------- *)

\* typeof value === "object" && value && "dispose" in value
HasDispose(v) == v.kind \in {"object", "instance"} /\ v.disp

\* The value dispose() takes from a registration to dispose, Undefined when
\* it skips the registration: reg.type === "singleton" && reg.singleton.
Disposable(r) ==
  IF regs[r].type = "singleton" /\ regs[r].singleton # Undefined
  THEN regs[r].singleton
  ELSE Undefined

\* The for-of loop over this.services.values(), from entry i on: the index
\* of the first entry whose value gets disposed, 0 when the loop runs out.
NextToDispose(c, i) ==
  LET tbl == services[c]
      hits == {j \in i..Len(tbl) : HasDispose(Disposable(tbl[j].reg))}
  IN IF hits = {} THEN 0 ELSE CHOOSE j \in hits : \A m \in hits : j <= m

\* (mutant of DisposeLoop: this.services.clear() is missing)
DisposeLoopKeepsTable(c, i, flags, snaps, others) ==
  LET j == NextToDispose(c, i) IN
  IF j = 0
  THEN [disposed |-> flags, snap |-> snaps, dlog |-> dlog,
        services |-> services, disposing |-> others]
  ELSE [disposed |-> flags, snap |-> snaps,
        dlog |-> [dlog EXCEPT ![c] = Append(@, services[c][j].reg)],
        services |-> services,
        disposing |-> others \cup {[c |-> c, idx |-> j]}]

\* The loop from entry i on, up to its next await or, when nothing is left
\* to dispose, through this.services.clear().
\* `others`: the dispose calls that stay suspended meanwhile.
DisposeLoop(c, i, flags, snaps, others) ==
  LET j == NextToDispose(c, i) IN
  IF j = 0
  THEN [disposed |-> flags, snap |-> snaps, dlog |-> dlog,
        services |-> [services EXCEPT ![c] = <<>>],
        disposing |-> others]
  ELSE [disposed |-> flags, snap |-> snaps,
        dlog |-> [dlog EXCEPT ![c] = Append(@, services[c][j].reg)],
        services |-> services,
        disposing |-> others \cup {[c |-> c, idx |-> j]}]

\* The value a registration holds: the instance, or the cached singleton.
Held(r) ==
  IF regs[r].type = "instance" THEN regs[r].value
  ELSE IF regs[r].type = "singleton" THEN regs[r].singleton
  ELSE Undefined

\* The registrations of c, in table order, that hold a value with a dispose
\* method, each with its type.
HoldsDisposable(r) == HasDispose(Held(r))
Snapshot(c) ==
  LET held == SelectSeq(Values(services[c]), HoldsDisposable)
  IN [i \in 1..Len(held) |-> [reg |-> held[i], type |-> regs[held[i]].type]]

\* (mutant of AlreadyDisposed: the guard is missing)
NeverDisposed(c) == FALSE

\* if (this.disposed) return
AlreadyDisposed(c) == disposed[c]

\* (mutant of disposeCall: the flag is not set before the loop)
disposeCallFlagNotFirst(c) ==
  IF AlreadyDisposed(c)
  THEN [disposed |-> disposed, snap |-> snap, dlog |-> dlog,
        services |-> services, disposing |-> disposing]
  ELSE LET out == DisposeLoop(c, 1, disposed,
                              [snap EXCEPT ![c] = Snapshot(c)], disposing)
       IN IF out.disposing = disposing
          THEN [out EXCEPT !.disposed[c] = TRUE]
          ELSE out

\* (mutant of disposeCall: the parent is marked disposed and emptied too)
disposeCallCascading(c) ==
  IF AlreadyDisposed(c)
  THEN [disposed |-> disposed, snap |-> snap, dlog |-> dlog,
        services |-> services, disposing |-> disposing]
  ELSE LET out == DisposeLoop(c, 1, [disposed EXCEPT ![c] = TRUE],
                              [snap EXCEPT ![c] = Snapshot(c)], disposing)
       IN IF parent[c] = NoParent THEN out
          ELSE [out EXCEPT !.disposed[parent[c]] = TRUE,
                           !.services[parent[c]] = <<>>]

\* dispose() up to its first await (or to its return).
disposeCall(c) ==
  IF AlreadyDisposed(c)
  THEN [disposed |-> disposed, snap |-> snap, dlog |-> dlog,
        services |-> services, disposing |-> disposing]
  ELSE DisposeLoop(c, 1, [disposed EXCEPT ![c] = TRUE],
                   [snap EXCEPT ![c] = Snapshot(c)], disposing)

\* The state after a dispose call (or continuation) with outcome `out`.
Disposal(out) ==
  /\ disposed' = out.disposed
  /\ snap' = out.snap
  /\ dlog' = out.dlog
  /\ services' = out.services
  /\ disposing' = out.disposing
  /\ regs' = Sweep(regs, out.services, pending)
  /\ hist' = SweepHist(hist, out.services, pending)
  /\ UNCHANGED <<parent, pending, ncalls>>

dispose(c) ==
  /\ c \in Containers
  /\ Disposal(disposeCall(c))

\* The rest of dispose() after `await value.dispose()`: the loop goes on
\* with the entries the Map has now.
resumeDispose(t) ==
  /\ t \in disposing
  /\ Disposal(DisposeLoop(t.c, t.idx + 1, disposed, snap, disposing \ {t}))

\* (mutant of clearCall: the parent's table is emptied as well)
clearCallWithParent(c) ==
  [d \in 1..Len(services) |->
     IF d = c \/ d = parent[c] THEN <<>> ELSE services[d]]

\* clear(): this.services.clear()
clearCall(c) == [services EXCEPT ![c] = <<>>]

clear(c) ==
  /\ c \in Containers
  /\ services' = clearCall(c)
  /\ regs' = Sweep(regs, clearCall(c), pending)
  /\ hist' = SweepHist(hist, clearCall(c), pending)
  /\ UNCHANGED <<parent, disposed, pending, disposing, ncalls, dlog, snap>>

(* ----------------------------- introspection --------------------------- *)

\* has(name) returns has(c, n) and touches nothing.
hasCall(c, n) ==
  /\ c \in Containers
  /\ has(c, n) \in BOOLEAN
  /\ UNCHANGED vars

\* list() returns list(c) and touches nothing.
listCall(c) ==
  /\ c \in Containers
  /\ Len(list(c)) >= 0
  /\ UNCHANGED vars

Next ==
  \/ \E c \in Containers : createChild(c)
  \/ \E c \in Containers, n \in Names : register(c, n)
  \/ \E c \in Containers, n \in Names : registerFactory(c, n)
  \/ \E c \in Containers, n \in Names : registerSingleton(c, n)
  \/ \E c \in Containers, n \in Names : resolve(c, n)
  \/ \E c \in Containers, n \in Names : resolveAsync(c, n)
  \/ \E t \in pending : resumeResolveAsync(t)
  \/ \E c \in Containers : dispose(c)
  \/ \E t \in disposing : resumeDispose(t)
  \/ \E c \in Containers : clear(c)
  \/ \E c \in Containers, n \in Names : hasCall(c, n)
  \/ \E c \in Containers : listCall(c)

Spec == Init /\ [][Next]_vars

(* ======================================================================= *)
(*                              Properties                                 *)
(* ======================================================================= *)

\* The k-th container up the parent chain of c (c itself for k = 0),
\* NoParent past the root.
RECURSIVE Up(_, _)
Up(c, k) ==
  IF k = 0 THEN c
  ELSE IF Up(c, k - 1) = NoParent THEN NoParent
  ELSE parent[Up(c, k - 1)]

\* The distances at which the chain of c has a container holding n locally.
Holders(c, n) ==
  {k \in 0..Len(parent) : Up(c, k) # NoParent /\ HasKey(services[Up(c, k)], n)}

Nearest(c, n) == CHOOSE k \in Holders(c, n) : \A m \in Holders(c, n) : k <= m

\* The containers whose table holds registration r.
Linked(r) ==
  \E c \in Containers : \E i \in 1..Len(services[c]) : services[c][i].reg = r

IsSingleton(r) == r # NoReg /\ regs[r].type = "singleton"

Awaited(r) == \E t \in pending : t.reg = r

\* dispose() of c has been called and has returned.
DisposeDone(c) == disposed[c] /\ ~\E t \in disposing : t.c = c

(* ---------------------------------- C1 --------------------------------- *)

\* C1 (as claimed): once a resolution of a singleton has succeeded, and as
\* long as no two resolutions of it overlapped and its owner is not
\* disposed, every further resolve/resolveAsync that finds it, on the owner
\* or on a descendant, invokes no producer and returns the value the first
\* successful resolution returned.
C1_SingletonProducedOnce ==
  \A c \in Containers, n \in Names :
    LET r == getRegistrationDeep(c, n) IN
    (/\ IsSingleton(r)
     /\ hist[r].first \notin {NotYet, Overlapped}
     /\ ~Awaited(r)
     /\ ~disposed[hist[r].owner])
    => \A o \in Met(c, n) :
         /\ resolveCall(c, n, o, ncalls + 1).inv = NoReg
         /\ resolveCall(c, n, o, ncalls + 1).ret = hist[r].first
         /\ resolveAsyncCall(c, n, o, ncalls + 1).inv = NoReg
         /\ resolveAsyncCall(c, n, o, ncalls + 1).ret = hist[r].first

(* ---------------------------------- C2 --------------------------------- *)

\* C2 (as claimed): in every step, a singleton registration whose cache
\* holds a value and that is still in a table afterwards (it was not
\* dropped by clear() or dispose()) has the same cached value afterwards.
C2_CacheNeverRewritten ==
  [][\A r \in RegIds :
       (IsSingleton(r) /\ Cached(r) /\ Linked(r)')
       => regs'[r].singleton = regs[r].singleton]_vars

(* ---------------------------------- C3 --------------------------------- *)

\* C3: a resolveAsync of a singleton whose cache is empty invokes the
\* producer and suspends with a result of its own even while another
\* resolveAsync of that singleton is suspended; suspended calls have
\* pairwise different objects as results; and when a suspended call
\* resumes it returns its own result and the cache holds that result
\* afterwards, whatever the cache held before.
C3_OverlapBothProduceLastWins ==
  /\ \A t \in pending :
       (IsSingleton(t.reg) /\ t.res # Thrown)
       => /\ resolveAsyncResume(t).ret = t.res
          /\ resolveAsyncResume(t).err = "none"
          /\ resolveAsyncResume(t).regs[t.reg].singleton = t.res
  /\ \A t1, t2 \in pending :
       (t1 # t2 /\ t1.res.kind = "object") => t1.res # t2.res
  /\ \A c \in Containers, n \in Names, o \in ProducerOutcomes :
       LET r == getRegistrationDeep(c, n)
           out == resolveAsyncCall(c, n, o, ncalls + 1)
       IN (IsSingleton(r) /\ ~Cached(r) /\ Awaited(r) /\ ~ThrowsAtOnce(o))
          => /\ out.inv = r
             /\ out.tasks = pending \cup
                  {Task(ncalls + 1, c, r, Produced(o, ncalls + 1))}
             /\ \A t \in pending : t.id # ncalls + 1

\* Two resolveAsync calls of one singleton are suspended together: both
\* found the cache empty, both invoked the producer, and each awaits an
\* object of its own.
C3_Witness ==
  \E t1, t2 \in pending :
    /\ t1.id < t2.id
    /\ t1.reg = t2.reg
    /\ IsSingleton(t1.reg)
    /\ ~Cached(t1.reg)
    /\ hist[t1.reg].first = Overlapped
    /\ t1.res.kind = "object"
    /\ t2.res.kind = "object"

(* ---------------------------------- C4 --------------------------------- *)

\* C4 (as claimed): when dispose() of a container has returned, the values
\* it disposed are exactly those of the registrations that held a value
\* with a disposal capability when it began (instances and populated
\* singletons), each once, in table order.
C4_DisposeInvokesEach ==
  \A c \in Containers :
    DisposeDone(c) => dlog[c] = [i \in 1..Len(snap[c]) |-> snap[c][i].reg]

(* ---------------------------------- C5 --------------------------------- *)

NoDuplicates(q) == \A i, j \in 1..Len(q) : q[i] = q[j] => i = j

\* C5: a dispose() call on a container whose dispose() was called before
\* (whether that call has returned or is suspended) changes nothing and
\* disposes nothing; no registration's value is disposed twice; and a
\* container has at most one disposal in progress.
C5_DisposeIdempotent ==
  /\ \A c \in Containers :
       disposed[c]
       => disposeCall(c) = [disposed |-> disposed, snap |-> snap,
                            dlog |-> dlog, services |-> services,
                            disposing |-> disposing]
  /\ \A c \in Containers : Cardinality({t \in disposing : t.c = c}) <= 1
  /\ \A c \in Containers : NoDuplicates(dlog[c])
  /\ \A c, d \in Containers :
       c # d => \A i \in 1..Len(dlog[c]), j \in 1..Len(dlog[d]) :
                  dlog[c][i] # dlog[d][j]
  /\ \A t \in disposing : disposed[t.c]

\* dispose() of a container is suspended in the disposal of a value (so a
\* second call would meet it in progress) after having disposed one.
C5_Witness ==
  \E t \in disposing :
    /\ disposed[t.c]
    /\ Len(dlog[t.c]) = 2
    /\ t.idx = 2

(* ---------------------------------- C6 --------------------------------- *)

Types == {"instance", "factory", "singleton"}

\* C6: no step resets a disposed flag, and on a container whose dispose()
\* has been called every registration call raises DisposedError and leaves
\* every table and every registration as it was.
C6_DisposedRejectsRegistration ==
  /\ [][\A c \in Containers : disposed[c] => disposed'[c]]_vars
  /\ [](\A c \in Containers, n \in Names, ty \in Types :
          disposed[c]
          => /\ SetRegistration(c, n, ty, Fn).err = "Disposed"
             /\ SetRegistration(c, n, ty, Fn).services = services
             /\ SetRegistration(c, n, ty, Fn).regs = regs)

\* dispose() of a container has returned while another container still
\* holds registrations.
C6_Witness ==
  \E c, d \in Containers :
    /\ c # d
    /\ DisposeDone(c)
    /\ services[c] = <<>>
    /\ services[d] # <<>>

(* ---------------------------------- C7 --------------------------------- *)

\* C7 (as claimed): a resolution, requested on a container other than the
\* owner, of a singleton whose cache is empty passes the requesting
\* container to the producer and leaves the produced value in the owner's
\* registration; and once the first successful resolution of a singleton
\* was one requested on a descendant of its owner, every resolution that
\* finds the singleton (on the owner or on any descendant) invokes no
\* producer and returns that first value.
C7_ProducedForDescendantSharedByAll ==
  /\ \A c \in Containers, n \in Names : \A o \in Met(c, n) :
       LET r == getRegistrationDeep(c, n)
           out == resolveCall(c, n, o, ncalls + 1)
       IN (IsSingleton(r) /\ ~Cached(r) /\ hist[r].owner # c)
          => /\ out.inv = r
             /\ out.arg = c
             /\ resolveAsyncCall(c, n, o, ncalls + 1).arg = c
             /\ out.err = "none" => out.regs[r].singleton = out.ret
  /\ \A d \in Containers, n \in Names :
       LET r == getRegistrationDeep(d, n) IN
       (/\ IsSingleton(r)
        /\ hist[r].first \notin {NotYet, Overlapped}
        /\ hist[r].from # hist[r].owner
        /\ ~disposed[hist[r].owner])
       => \A o \in Met(d, n) :
            /\ resolveCall(d, n, o, ncalls + 1).inv = NoReg
            /\ resolveCall(d, n, o, ncalls + 1).ret = hist[r].first
            /\ resolveAsyncCall(d, n, o, ncalls + 1).inv = NoReg
            /\ resolveAsyncCall(d, n, o, ncalls + 1).ret = hist[r].first

(* ---------------------------------- C8 --------------------------------- *)

\* C8: a lookup of n on c finds the registration of the nearest container
\* up the chain of c that holds n; so with n registered on a parent p and
\* on its child c, c and the children of c without n of their own use the
\* registration of c, while p and the other children of p without n of
\* their own use that of p; and a registration call on c changes neither
\* another container's table nor any existing registration object.
C8_Shadowing ==
  /\ \A c \in Containers, n \in Names :
       getRegistrationDeep(c, n) =
         IF Holders(c, n) = {} THEN NoReg
         ELSE MapGet(services[Up(c, Nearest(c, n))], n)
  /\ \A p, c \in Containers, n \in Names :
       (parent[c] = p /\ HasKey(services[p], n) /\ HasKey(services[c], n))
       => /\ getRegistrationDeep(c, n) = MapGet(services[c], n)
          /\ getRegistrationDeep(p, n) = MapGet(services[p], n)
          /\ \A s \in Containers :
               (parent[s] = p /\ ~HasKey(services[s], n))
               => getRegistrationDeep(s, n) = MapGet(services[p], n)
          /\ \A g \in Containers :
               (parent[g] = c /\ ~HasKey(services[g], n))
               => getRegistrationDeep(g, n) = MapGet(services[c], n)
  /\ \A c \in Containers, n \in Names, ty \in Types :
       LET out == SetRegistration(c, n, ty, Fn) IN
       /\ \A d \in Containers \ {c} : out.services[d] = services[d]
       /\ \A r \in RegIds : out.regs[r] = regs[r]

\* n is registered on a parent and on one of its children, another
\* container hangs below one of the two and has no n of its own, and the
\* two registrations are different objects.
C8_Witness ==
  \E p, c, s \in Containers, n \in Names :
    /\ parent[c] = p
    /\ HasKey(services[p], n)
    /\ HasKey(services[c], n)
    /\ MapGet(services[p], n) # MapGet(services[c], n)
    /\ s \notin {p, c}
    /\ ~HasKey(services[s], n)
    /\ \/ parent[s] = p /\ getRegistrationDeep(s, n) = MapGet(services[p], n)
       \/ parent[s] = c /\ getRegistrationDeep(s, n) = MapGet(services[c], n)

(* ---------------------------------- C9 --------------------------------- *)

\* C9: whatever the producer does, a resolve or resolveAsync call that finds
\* a factory invokes the factory's producer (once: a call has one call site
\* for it) and leaves every registration object as it was, adding at most
\* its own suspended task; and the continuation of a resolveAsync of a
\* factory invokes nothing, returns the awaited result and stores nothing.
\* No resolution step changes a table.
C9_FactoryNeverStored ==
  /\ [](\A c \in Containers, n \in Names, o \in ProducerOutcomes :
          LET r == getRegistrationDeep(c, n)
              out == resolveCall(c, n, o, ncalls + 1)
              aout == resolveAsyncCall(c, n, o, ncalls + 1)
          IN (r # NoReg /\ regs[r].type = "factory")
             => /\ out.inv = r /\ out.regs = regs /\ out.tasks = pending
                /\ aout.inv = r /\ aout.regs = regs
                /\ aout.tasks \in
                     {pending,
                      pending \cup {Task(ncalls + 1, c, r,
                                         Produced(o, ncalls + 1))}})
  /\ [](\A t \in pending :
          regs[t.reg].type = "factory"
          => /\ resolveAsyncResume(t).inv = NoReg
             /\ resolveAsyncResume(t).regs = regs
             /\ t.res # Thrown => resolveAsyncResume(t).ret = t.res)
  /\ [][(\/ \E c \in Containers, n \in Names : resolve(c, n)
         \/ \E c \in Containers, n \in Names : resolveAsync(c, n)
         \/ \E t \in pending : resumeResolveAsync(t))
        => services' = services]_vars

\* A factory has been resolved twice, by two resolveAsync calls that are
\* both suspended with their own objects.
C9_Witness ==
  \E t1, t2 \in pending :
    /\ t1.id < t2.id
    /\ t1.reg = t2.reg
    /\ regs[t1.reg].type = "factory"
    /\ regs[t1.reg].singleton = Undefined
    /\ t1.res.kind = "object"
    /\ t2.res.kind = "object"

(* ---------------------------------- C10 -------------------------------- *)

\* C10: has(n) on c is true exactly when c or a container up its chain
\* holds n locally, which is exactly when resolve(n) and resolveAsync(n) on
\* c raise no NotFoundError, whatever the producer does.  (has is a
\* function of the tables alone: hasCall changes no variable.)
C10_HasIffFound ==
  \A c \in Containers, n \in Names :
    /\ has(c, n) <=> Holders(c, n) # {}
    /\ \A o \in Met(c, n) :
         /\ has(c, n) <=> resolveCall(c, n, o, ncalls + 1).err # "NotFound"
         /\ has(c, n) <=> resolveAsyncCall(c, n, o, ncalls + 1).err # "NotFound"

\* One name is visible from a container only through its grandparent, and
\* another name is not visible from it at all.
C10_Witness ==
  \E c \in Containers, n, m \in Names :
    /\ has(c, n)
    /\ Holders(c, n) = {2}
    /\ ~has(c, m)

(* ---------------------------------- C11 -------------------------------- *)

Range(q) == {q[i] : i \in 1..Len(q)}

\* q without the elements of drop, order kept.
RECURSIVE Without(_, _)
Without(q, drop) ==
  IF q = <<>> THEN <<>>
  ELSE IF Head(q) \in drop THEN Without(Tail(q), drop)
  ELSE <<Head(q)>> \o Without(Tail(q), drop)

\* C11: list() of a container has no duplicates; it is the container's
\* local names in insertion order, followed (when there is a parent) by the
\* parent's list() without the names registered locally; and the names it
\* lists are exactly the names for which has() is true.
C11_ListLocalThenParent ==
  \A c \in Containers :
    /\ NoDuplicates(list(c))
    /\ SubSeq(list(c), 1, Len(services[c])) = Keys(services[c])
    /\ list(c) =
         Keys(services[c]) \o
         (IF parent[c] = NoParent THEN <<>>
          ELSE Without(list(parent[c]), Range(Keys(services[c]))))
    /\ Range(list(c)) = {n \in Names : has(c, n)}

\* A container lists a name of its own that shadows the first name of its
\* parent's list, then the name it only inherits.
C11_Witness ==
  \E c \in Containers :
    /\ parent[c] # NoParent
    /\ Len(services[c]) = 1
    /\ Len(list(parent[c])) = 2
    /\ list(parent[c])[1] = list(c)[1]
    /\ list(c) = <<list(parent[c])[1], list(parent[c])[2]>>

(* ---------------------------------- C12 -------------------------------- *)

\* The producer returns a promise, whatever it settles with.
ReturnsPromise(o) == o.mode = "async"

\* C12: resolve raises the async-misuse error exactly when the name is
\* found as a factory, or as a singleton with an empty cache, and the
\* producer returns a promise; for an instance and for a singleton whose
\* cache is populated it returns the held value.  resolveAsync never raises
\* that error, neither at the call nor at its continuation: it suspends on
\* the promise and its continuation returns the value the promise was
\* fulfilled with.
C12_AsyncMisuseOnlyFromResolve ==
  /\ \A c \in Containers, n \in Names, o \in ProducerOutcomes :
       LET r == getRegistrationDeep(c, n)
           out == resolveCall(c, n, o, ncalls + 1)
           aout == resolveAsyncCall(c, n, o, ncalls + 1)
       IN /\ out.err = "AsyncMisuse"
               <=> /\ r # NoReg
                   /\ regs[r].type = "factory"
                        \/ (IsSingleton(r) /\ ~Cached(r))
                   /\ ReturnsPromise(o)
          /\ (r # NoReg /\ regs[r].type = "instance")
               => out.err = "none" /\ out.ret = regs[r].value
          /\ (IsSingleton(r) /\ Cached(r))
               => out.err = "none" /\ out.ret = regs[r].singleton
          /\ aout.err # "AsyncMisuse"
          /\ out.err = "AsyncMisuse"
               => /\ aout.err = "none"
                  /\ aout.tasks =
                       pending \cup {Task(ncalls + 1, c, r,
                                          Produced(o, ncalls + 1))}
  /\ \A t \in pending :
       /\ resolveAsyncResume(t).err # "AsyncMisuse"
       /\ t.res # Thrown
            => /\ resolveAsyncResume(t).err = "none"
               /\ resolveAsyncResume(t).ret = t.res

\* A resolveAsync call is suspended on the promise of a singleton's producer
\* and will return an object; the cache is still empty, another resolution
\* of the singleton began meanwhile, and a resolve of the name whose
\* producer returns a promise again raises the async-misuse error.
C12_Witness ==
  \E c \in Containers, n \in Names, t \in pending :
    /\ t.reg = getRegistrationDeep(c, n)
    /\ IsSingleton(t.reg)
    /\ ~Cached(t.reg)
    /\ t.res.kind = "object"
    /\ hist[t.reg].first = Overlapped
    /\ resolveCall(c, n, [mode |-> "async", res |-> "object"],
                   ncalls + 1).err = "AsyncMisuse"

(* ---------------------------------- C13 -------------------------------- *)

\* C13: when the producer of a singleton with an empty cache throws, resolve
\* and resolveAsync raise the producer's error (no error of the container)
\* and write no registration; when the promise a resolveAsync call awaits
\* for a singleton is rejected, its continuation raises the producer's
\* error, returns nothing and writes no registration; and a resolution that
\* finds a singleton with an empty cache always invokes the producer.
C13_FailureNotMemoized ==
  /\ \A c \in Containers, n \in Names :
       LET r == getRegistrationDeep(c, n)
           throw == [mode |-> "sync", res |-> "throw"]
           out == resolveCall(c, n, throw, ncalls + 1)
           aout == resolveAsyncCall(c, n, throw, ncalls + 1)
       IN (IsSingleton(r) /\ ~Cached(r))
          => /\ out.err = "Producer" /\ out.ret = NotYet
             /\ out.regs = regs /\ out.tasks = pending
             /\ aout.err = "Producer" /\ aout.ret = NotYet
             /\ aout.regs = regs /\ aout.tasks = pending
  /\ \A t \in pending :
       (IsSingleton(t.reg) /\ t.res = Thrown)
       => /\ resolveAsyncResume(t).err = "Producer"
          /\ resolveAsyncResume(t).ret = NotYet
          /\ resolveAsyncResume(t).regs = regs
          /\ resolveAsyncResume(t).hist = hist
  /\ \A c \in Containers, n \in Names, o \in ProducerOutcomes :
       LET r == getRegistrationDeep(c, n) IN
       (IsSingleton(r) /\ ~Cached(r))
       => /\ resolveCall(c, n, o, ncalls + 1).inv = r
          /\ resolveAsyncCall(c, n, o, ncalls + 1).inv = r

\* The only registration ever made is a singleton; its producer was invoked
\* once and returned a promise, no call is suspended any more, and no
\* resolution of it has succeeded: the promise was rejected and the failure
\* delivered.  The cache is empty and the singleton is still registered.
C13_Witness ==
  /\ Len(regs) = 1
  /\ IsSingleton(1)
  /\ Linked(1)
  /\ ncalls = 1
  /\ pending = {}
  /\ hist[1].first = NotYet
  /\ ~Cached(1)

(* ---------------------------------- C14 -------------------------------- *)

\* The outcome `out` of a step of dispose() of c touches c only: the table,
\* the disposed flag, the disposal log and the suspended dispose call of
\* every other container are as before, and a value it disposes is held by
\* a registration of c's table that is in no other table.
OnlyTouches(out, c) ==
  /\ \A d \in Containers \ {c} :
       /\ out.services[d] = services[d]
       /\ out.disposed[d] = disposed[d]
       /\ out.dlog[d] = dlog[d]
       /\ {t \in out.disposing : t.c = d} = {t \in disposing : t.c = d}
  /\ \/ out.dlog[c] = dlog[c]
     \/ \E r \in Range(Values(services[c])) :
          /\ out.dlog[c] = Append(dlog[c], r)
          /\ \A d \in Containers \ {c} : r \notin Range(Values(services[d]))

\* C14: a dispose() call on c, and every continuation of one, touches c
\* only; and no step of a dispose() call changes a registration object
\* (type, producer, cached value) that is in a table afterwards.
C14_DisposeTouchesOnlyItself ==
  /\ [](\A c \in Containers : OnlyTouches(disposeCall(c), c))
  /\ [](\A t \in disposing :
          OnlyTouches(DisposeLoop(t.c, t.idx + 1, disposed, snap,
                                  disposing \ {t}), t.c))
  /\ [][(disposed' # disposed \/ disposing' # disposing)
        => \A r \in RegIds : Linked(r)' => regs'[r] = regs[r]]_vars

\* dispose() of a child has returned after disposing a singleton of the
\* child, while the parent, alive, still holds a value with a dispose method
\* that was not disposed.
C14_Witness ==
  \E c, d \in Containers :
    /\ parent[c] = d
    /\ DisposeDone(c)
    /\ dlog[c] # <<>>
    /\ ~disposed[d]
    /\ dlog[d] = <<>>
    /\ \E i \in 1..Len(services[d]) : HoldsDisposable(services[d][i].reg)

(* ---------------------------------- C15 -------------------------------- *)

\* C15: clear() is accepted on every container, disposed or not; a clear()
\* step on c leaves c's table empty and changes nothing else: no disposal
\* is started or logged, no flag changes, every other table and every
\* registration that is still in a table are as before, and every name the
\* parent chain of c holds is found from c afterwards, in the registration
\* the parent finds.
C15_ClearOnlyEmptiesLocalTable ==
  /\ [](\A c \in Containers : ENABLED clear(c))
  /\ [][\A c \in Containers :
          clear(c)
          => /\ services'[c] = <<>>
             /\ \A d \in Containers \ {c} : services'[d] = services[d]
             /\ dlog' = dlog
             /\ disposing' = disposing
             /\ disposed' = disposed
             /\ pending' = pending
             /\ \A r \in RegIds : Linked(r)' => regs'[r] = regs[r]
             /\ \A n \in Names :
                  (parent[c] # NoParent /\ has(parent[c], n))
                  => /\ has(c, n)'
                     /\ getRegistrationDeep(c, n)' =
                          getRegistrationDeep(parent[c], n)]_vars

\* With two containers, none disposed, the child's table is empty although
\* the second registration ever made is no longer in any table while the
\* first still is in the root's: the second was in the child's table and
\* clear() of the child dropped it; the root's name is found from the child.
C15_Witness ==
  /\ Len(parent) = 2
  /\ ~disposed[1] /\ ~disposed[2]
  /\ services[2] = <<>>
  /\ Len(regs) = 2
  /\ regs[2] = Gone
  /\ Len(services[1]) = 1
  /\ services[1][1].reg = 1
  /\ has(2, services[1][1].name)

(* ---------------------------------- C16 -------------------------------- *)

C18_WarnOnlyForAncestorOwned ==
  \A c \in Containers, n \in Names, o \in ProducerOutcomes :
    LET r == getRegistrationDeep(c, n)
        scopeUnsafe == IsSingleton(r) /\ ~Cached(r) /\ hist[r].owner # c
    IN /\ resolveCall(c, n, o, ncalls + 1).warn <=> scopeUnsafe
       /\ resolveAsyncCall(c, n, o, ncalls + 1).warn <=> scopeUnsafe

\* C18 (amended): a resolve or resolveAsync call warns exactly when it
\* finds a singleton with an empty cache and is requested on a container
\* that has a parent, whichever container owns the singleton; and a call
\* requested on a child for a singleton of a root container returns the
\* value, raises the error and leaves the registrations that the same call
\* requested on the root, which does not warn, would.
C18_WarnOnProduceFromChild ==
  \A c \in Containers, n \in Names, o \in ProducerOutcomes :
    LET r == getRegistrationDeep(c, n)
        out == resolveCall(c, n, o, ncalls + 1)
        aout == resolveAsyncCall(c, n, o, ncalls + 1)
        fromChild == IsSingleton(r) /\ ~Cached(r) /\ parent[c] # NoParent
    IN /\ out.warn <=> fromChild
       /\ aout.warn <=> fromChild
       /\ (fromChild /\ parent[hist[r].owner] = NoParent)
            => LET q == hist[r].owner
                   qout == resolveCall(q, n, o, ncalls + 1)
                   qaout == resolveAsyncCall(q, n, o, ncalls + 1)
               IN /\ ~qout.warn /\ ~qaout.warn
                  /\ out.ret = qout.ret /\ out.err = qout.err
                  /\ out.regs = qout.regs
                  /\ aout.ret = qaout.ret /\ aout.err = qaout.err
                  /\ aout.regs = qaout.regs

\* A child has resolved a singleton of its own (its first resolution was
\* requested on the child, which has a parent), and now finds a singleton
\* of the root whose cache is empty.
C18_Witness ==
  \E c \in Containers, n, m \in Names :
    LET r == MapGet(services[c], n)
        g == getRegistrationDeep(c, m)
    IN /\ parent[c] # NoParent
       /\ IsSingleton(r) /\ Cached(r)
       /\ hist[r].owner = c /\ hist[r].from = c
       /\ IsSingleton(g) /\ ~Cached(g)
       /\ parent[hist[g].owner] = NoParent

(* ---------------------------------- C19 -------------------------------- *)

\* C19 (as claimed): when dispose() of a container has returned, every
\* singleton that was in its table with a populated cache and a dispose
\* method when the call began has had its value disposed, whatever other
\* calls ran while dispose() was suspended.
C19_DisposeReachesEverySingleton ==
  \A c \in Containers :
    DisposeDone(c)
    => \A i \in 1..Len(snap[c]) :
         snap[c][i].type = "singleton"
         => \E j \in 1..Len(dlog[c]) : dlog[c][j] = snap[c][i].reg

(* ---------------------------------- C20 -------------------------------- *)

\* C20 (as claimed): when dispose() of c has disposed the value of a
\* registration of c's table (the value every resolution of it so far
\* returned, the cache never having been rewritten), no resolve or
\* resolveAsync call on c for its name returns that value.
C20_NoDisposedValueReturned ==
  \A c \in Containers, n \in Names : \A o \in Met(c, n) :
    LET r == MapGet(services[c], n) IN
    (/\ r # NoReg
     /\ \E j \in 1..Len(dlog[c]) : dlog[c][j] = r
     /\ hist[r].first = regs[r].singleton)
    => /\ resolveCall(c, n, o, ncalls + 1).ret # regs[r].singleton
       /\ resolveAsyncCall(c, n, o, ncalls + 1).ret # regs[r].singleton

(* ---------------------------------- C21 -------------------------------- *)

\* C21: once dispose() of a container has returned, it stays returned and
\* the container's table is empty and stays empty, whatever step follows;
\* and the continuation of a resolveAsync call changes no table and no
\* disposal log, so a late result is neither put in a table nor disposed.
C21_TableStaysEmptyAfterDispose ==
  /\ [](\A c \in Containers : DisposeDone(c) => services[c] = <<>>)
  /\ [][\A c \in Containers :
          DisposeDone(c) => DisposeDone(c)' /\ services'[c] = <<>>]_vars
  /\ [][(\E t \in pending : t \notin pending')
        => services' = services /\ dlog' = dlog /\ disposing' = disposing]_vars

\* dispose() of a container has returned while a resolveAsync call on a
\* singleton that container owned is still suspended, awaiting an object:
\* the registration is in no table any more.
C21_Witness ==
  \E t \in pending :
    /\ IsSingleton(t.reg)
    /\ ~Linked(t.reg)
    /\ DisposeDone(hist[t.reg].owner)
    /\ t.res.kind = "object"

(* ---------------------------------- C22 -------------------------------- *)

\* C22: the continuation of a resolveAsync call changes no registration
\* but the one the call looked up before its await; and while a call is
\* suspended on a registration that is no longer in any table (its name
\* was registered again, or its table cleared), no resolve or resolveAsync
\* call finds that registration: a call that finds a registration finds
\* one that is in a table, and returns that registration's instance or
\* cached value or the result of the producer it invokes now.
C22_LateResultGoesToReplaced ==
  /\ \A t \in pending :
       \A r \in RegIds \ {t.reg} : resolveAsyncResume(t).regs[r] = regs[r]
  /\ \A t \in pending :
       ~Linked(t.reg)
       => \A c \in Containers, n \in Names, o \in ProducerOutcomes :
            LET out == resolveCall(c, n, o, ncalls + 1)
                aout == resolveAsyncCall(c, n, o, ncalls + 1)
                fresh == Produced(o, ncalls + 1)
            IN /\ out.reg # t.reg
               /\ aout.reg # t.reg
               /\ out.reg # NoReg
                    => /\ Linked(out.reg)
                       /\ aout.reg = out.reg
                       /\ out.ret \in {NotYet, fresh, Held(out.reg)}
                       /\ aout.ret \in {NotYet, Held(out.reg)}
                       /\ \A u \in aout.tasks \ pending :
                            u.reg = out.reg /\ u.res = fresh

\* A name was registered again in place while a resolveAsync call of its
\* previous singleton registration was suspended: the table holds the third
\* registration (a singleton with an empty cache) before the second, and
\* the call, which awaits an object, still refers to the first.
C22_Witness ==
  \E t \in pending, c \in Containers :
    /\ Len(regs) = 3
    /\ t.reg = 1
    /\ IsSingleton(1)
    /\ t.res.kind = "object"
    /\ ~disposed[c]
    /\ Len(services[c]) = 2
    /\ services[c][1].reg = 3
    /\ services[c][2].reg = 2
    /\ IsSingleton(3)
    /\ ~Cached(3)

====
